---- MODULE Spec2Model ----
(***************************************************************************)
(* The "sonobuoy images" sub-commands (pull, download, push, delete) of    *)
(* cmd/sonobuoy/app/images.go and the docker helpers of package image      *)
(* (SaveToTar, PullImage, DeleteImage, TagImage, PushImage).               *)
(*                                                                         *)
(* One behaviour is one invocation of one sub-command (Spec), or two       *)
(* invocations of the same sub-command in a row (SpecRuns).  The docker    *)
(* engine, the file system and the cluster are the environment: every      *)
(* answer they give is a nondeterministic choice.                          *)
(***************************************************************************)
EXTENDS Integers, Sequences, FiniteSets, TLC

\* Number of logical images of the registry list.
NumImages == 2
\* Longest response stream of the engine, in items.
MaxStream == 2
\* Most response items of one ImageRemove call.
MaxItems == 1

VARIABLES
    cmd,            \* the sub-command being run
    pc,             \* position of the Run function
    second,         \* TRUE in the second invocation
    prevReqs,       \* engine requests of the previous invocation
    upstreamImages, \* keys of the map upstreamImages
    privateImages,  \* keys of the map privateImages
    remaining,      \* keys the range loop has not visited yet
    cur,            \* loop variable (k, v) of the current iteration
    images,         \* downloadImages: the slice images
    reqs,           \* engine requests issued, in order
    faults,         \* what the environment made fail: [op, img, cause]
    errlog,         \* errlog.LogError calls, in order
    stdout,         \* fmt.Print* calls of the loops, in order
    out,            \* the latest response stream of the engine
    open,           \* response streams obtained and not closed
    exitCode,       \* exit status of the process
    resolveFailed,  \* the image set could not be resolved
    removed,        \* answers of the successful ImageRemove calls, in order
    e2eArgs,        \* GetE2EConfig: the mode and the flag set passed
    e2eRet          \* GetE2EConfig: what it returned

vars == <<cmd, pc, second, prevReqs, upstreamImages, privateImages, remaining,
          cur, images, reqs, faults, errlog, stdout, out, open, exitCode,
          resolveFailed, removed, e2eArgs, e2eRet>>

Names == 1..NumImages

Commands == {"pull", "download", "push", "delete"}

NoStream == [op |-> "none", img |-> 0, eof |-> FALSE]

\* GetE2EConfig has not been called.
NoArgs == [mode |-> "none"]
NilCfg == [Focus |-> "nil", Skip |-> "nil", Parallel |-> "nil",
           CustomRegistries |-> "nil"]
NoRet == [called |-> FALSE, cfg |-> NilCfg, err |-> "none"]

\* ---------------------------------------------------------------- streams

JSONItems == {"msg", "errmsg", "rderr", "eof"}
TarItems == {"data", "rderr", "eof"}

StreamsOf(A) == UNION {[1..n -> A] : n \in 0..MaxStream}

\* One Read of an io.Reader: the item at position p; a reader that has
\* nothing left answers io.EOF.
ReadAt(s, p) == IF p > Len(s) THEN "eof" ELSE s[p]

\* jsonmessage.DisplayJSONMessagesStream: decode and display messages until
\* io.EOF (nil), a decode/read error, or a message carrying an error.
RECURSIVE DisplayJSONMessagesStream(_, _)
DisplayJSONMessagesStream(s, p) ==
    LET it == ReadAt(s, p) IN
    CASE it = "eof"    -> [err |-> "none", pos |-> p + 1, eof |-> TRUE]
      [] it = "errmsg" -> [err |-> "jsonerr", pos |-> p + 1, eof |-> FALSE]
      [] it = "rderr"  -> [err |-> "read", pos |-> p + 1, eof |-> FALSE]
      [] OTHER         -> DisplayJSONMessagesStream(s, p + 1)

streamDockerMessages(s) == DisplayJSONMessagesStream(s, 1)

\* ioutil.ReadAll: read until io.EOF (nil) or a read error.
RECURSIVE ReadAll(_, _)
ReadAll(s, p) ==
    LET it == ReadAt(s, p) IN
    CASE it = "eof"   -> [err |-> "none", pos |-> p + 1, eof |-> TRUE]
      [] it = "rderr" -> [err |-> "read", pos |-> p + 1, eof |-> FALSE]
      [] OTHER        -> ReadAll(s, p + 1)

\* io.Copy(file, out): read a chunk, write it; w is the number of the write
\* that fails (0: none), k the writes done so far.
RECURSIVE Copy(_, _, _, _)
Copy(s, p, w, k) ==
    LET it == ReadAt(s, p) IN
    CASE it = "eof"   -> [err |-> "none", pos |-> p + 1, eof |-> TRUE]
      [] it = "rderr" -> [err |-> "read", pos |-> p + 1, eof |-> FALSE]
      [] OTHER        -> IF k + 1 = w
                         THEN [err |-> "write", pos |-> p + 1, eof |-> FALSE]
                         ELSE Copy(s, p + 1, w, k + 1)

\* ------------------------------------------------------------ bookkeeping

Req(op, img, list) == [op |-> op, img |-> img, list |-> list]
Fault(op, img, cause) == [op |-> op, img |-> img, cause |-> cause]
\* Config.GetE2EImage(): the reference of logical name k in the map reg.
GetE2EImage(reg, k) == <<reg, k>>

\* The helpers of package image wrapping an engine error with no reference
\* of the pushed image.
InnerRefsNoDest(op, img) ==
    CASE op = "pull"   -> {GetE2EImage("upstream", img)}
      [] op = "tag"    -> {GetE2EImage("private", img)}
      [] op = "remove" -> {GetE2EImage("upstream", img)}
      [] OTHER         -> {}

\* References named by the message a helper of package image wraps the
\* error with: errors.Wrapf(err, "error pulling image: %v", ...) and the
\* like; SaveToTar names no image.
InnerRefs(op, img) ==
    CASE op = "pull"   -> {GetE2EImage("upstream", img)}
      [] op = "tag"    -> {GetE2EImage("private", img)}
      [] op = "push"   -> {GetE2EImage("private", img)}
      [] op = "remove" -> {GetE2EImage("upstream", img)}
      [] OTHER         -> {}

\* References named by the message the Run function wraps the error with:
\* errors.Wrapf(err, "couldn't pull image: %v", v.GetE2EImage()) and the
\* like; downloadImages names no image.
OuterRefs(op, img) ==
    IF op \in {"pull", "tag", "push", "remove"}
    THEN {GetE2EImage("upstream", img)}
    ELSE {}

\* One errlog.LogError call: the operation, the logical name (0: none), the
\* innermost wrap message and the references the whole message names.
Logged(op, img, msg) ==
    [op |-> op, img |-> img, msg |-> msg,
     refs |-> IF img = 0 THEN {} ELSE InnerRefs(op, img) \cup OuterRefs(op, img)]
Line(kind, img, val) == [kind |-> kind, img |-> img, val |-> val]

\* errlog.LogError(...); os.Exit(1)
Exit(op, msg) ==
    /\ errlog' = Append(errlog, Logged(op, 0, msg))
    /\ exitCode' = 1
    /\ pc' = "done"

Init ==
    /\ cmd \in Commands
    /\ pc = "start"
    /\ second = FALSE
    /\ prevReqs = <<>>
    /\ upstreamImages = {}
    /\ privateImages = {}
    /\ remaining = {}
    /\ cur = 0
    /\ images = <<>>
    /\ reqs = <<>>
    /\ faults = {}
    /\ errlog = <<>>
    /\ stdout = <<>>
    /\ out = NoStream
    /\ open = {}
    /\ exitCode = 0
    /\ resolveFailed = FALSE
    /\ removed = <<>>
    /\ e2eArgs = NoArgs
    /\ e2eRet = NoRet

\* --------------------------------------------------------- before the loop

\* pushImages: os.Stat(e2eRegistryConfig) (the flag is required for push).
StatFile ==
    /\ pc = "start"
    /\ cmd = "push"
    /\ \E exists \in BOOLEAN :
        IF exists
        THEN /\ pc' = "password"
             /\ UNCHANGED <<errlog, exitCode, resolveFailed>>
        ELSE /\ resolveFailed' = TRUE
             /\ Exit("stat", "file does not exist or cannot be opened")
    /\ UNCHANGED <<cmd, removed, e2eArgs, e2eRet, second, prevReqs, upstreamImages, privateImages,
                   remaining, cur, images, reqs, faults, stdout, out, open>>

\* pushImages: the registry password, from the environment or the terminal.
ReadPassword ==
    /\ pc = "password"
    /\ \E username \in BOOLEAN, envPassword \in BOOLEAN, readOK \in BOOLEAN :
        IF username /\ ~envPassword /\ ~readOK
        THEN Exit("password", "couldn't get password from user")
        ELSE /\ pc' = "kube"
             /\ UNCHANGED <<errlog, exitCode>>
    /\ UNCHANGED <<cmd, removed, e2eArgs, e2eRet, second, prevReqs, upstreamImages, privateImages,
                   remaining, cur, images, reqs, faults, stdout, out, open,
                   resolveFailed>>

\* kubeconfig.Get, getSonobuoyClient, sbc.Version: each may fail.
KubeSetup ==
    /\ \/ pc = "kube"
       \/ pc = "start" /\ cmd # "push"
    /\ \E r \in {"ok", "couldn't get REST client",
                 "could not create sonobuoy client",
                 "couldn't get Sonobuoy client"} :
        IF r = "ok"
        THEN /\ pc' = "upstream"
             /\ UNCHANGED <<errlog, exitCode>>
        ELSE Exit("kube", r)
    /\ UNCHANGED <<cmd, removed, e2eArgs, e2eRet, second, prevReqs, upstreamImages, privateImages,
                   remaining, cur, images, reqs, faults, stdout, out, open,
                   resolveFailed>>

\* A failed image.GetImages with the error not acted upon: the map is nil
\* and the function goes on.
GetImagesFailedNoExit(next) ==
    /\ resolveFailed' = TRUE
    /\ errlog' = Append(errlog, Logged("resolve", 0,
                                       "couldn't init upstream registry list"))
    /\ pc' = next
    /\ UNCHANGED exitCode

\* if err != nil { errlog.LogError(...); os.Exit(1) } after image.GetImages;
\* next is where the function would go on.
GetImagesFailed(next) ==
    /\ resolveFailed' = TRUE
    /\ Exit("resolve", "couldn't init upstream registry list")

\* A registry list whose override file drops the first entry of the table.
GetImageConfigsDropping(override) ==
    IF override THEN Names \ {1} ELSE Names

\* RegistryList.GetImageConfigs: the keys of the map built for a version,
\* with (override) or without an override file: the built-in table of
\* logical names; an override replaces registries, never keys.
GetImageConfigs(override) == Names

\* image.GetImages: NewRegistryList and GetImageConfigs, each may fail;
\* on success the map holds one Config per logical name.
GetImages == {"ok", "couldn't init Registry List",
              "couldn't get images for version"}

\* upstreamImages, err := image.GetImages(...)
GetUpstream ==
    /\ pc = "upstream"
    /\ \E r \in GetImages :
        IF r = "ok"
        THEN /\ upstreamImages' = GetImageConfigs(cmd = "delete")
             /\ pc' = IF cmd = "push" THEN "private" ELSE "client"
             /\ UNCHANGED <<errlog, exitCode, resolveFailed>>
        ELSE /\ GetImagesFailed(IF cmd = "push" THEN "private" ELSE "client")
             /\ UNCHANGED upstreamImages
    /\ UNCHANGED <<cmd, removed, e2eArgs, e2eRet, second, prevReqs, privateImages, remaining, cur,
                   images, reqs, faults, stdout, out, open>>

\* privateImages, err := image.GetImages(imagesflags.e2eRegistryConfig, version)
GetPrivate ==
    /\ pc = "private"
    /\ \E r \in GetImages :
        IF r = "ok"
        THEN /\ privateImages' = GetImageConfigs(TRUE)
             /\ pc' = "client"
             /\ UNCHANGED <<errlog, exitCode, resolveFailed>>
        ELSE /\ GetImagesFailed("client")
             /\ UNCHANGED privateImages
    /\ UNCHANGED <<cmd, removed, e2eArgs, e2eRet, second, prevReqs, upstreamImages, remaining, cur,
                   images, reqs, faults, stdout, out, open>>

\* client.NewClientWithOpts; then the range loop starts over the map.
NewClient ==
    /\ pc = "client"
    /\ \E ok \in BOOLEAN :
        IF ok
        THEN /\ pc' = "loop"
             /\ remaining' = upstreamImages
             /\ UNCHANGED <<errlog, exitCode>>
        ELSE /\ Exit("client", "couldn't init docker client")
             /\ UNCHANGED remaining
    /\ UNCHANGED <<cmd, removed, e2eArgs, e2eRet, second, prevReqs, upstreamImages, privateImages, cur,
                   images, reqs, faults, stdout, out, open, resolveFailed>>

\* The keys a range over a Go map may yield next: any key not yet visited
\* (the iteration order of a map is not fixed).
RangeNext(rem) == rem

\* PullImage / PushImage without the deferred Close.
CloseStreamLeak(id) == open

\* defer out.Close()
CloseStream(id) == open \ {id}

\* ------------------------------------------------------------------- pull

\* pullImages loop body after image.PullImage, with the loop left at the
\* first error.
PullImageReturnedAbort(v, failed) ==
    /\ stdout' = Append(stdout, Line("sep", v, ""))
    /\ IF failed
       THEN Exit("pull", "error pulling image")
       ELSE /\ pc' = "loop"
            /\ UNCHANGED <<errlog, exitCode>>

\* pullImages loop body after image.PullImage returned: log the error, print
\* the separator, go on with the next image.
PullImageReturned(v, failed) ==
    /\ errlog' = IF failed
                 THEN Append(errlog, Logged("pull", v, "error pulling image"))
                 ELSE errlog
    /\ stdout' = Append(stdout, Line("sep", v, ""))
    /\ pc' = "loop"
    /\ UNCHANGED exitCode

\* PullImage / PushImage after the engine call succeeded: show the status,
\* then read what is left; the first error is returned.
ConsumeStream(s) ==
    LET d == streamDockerMessages(s) IN
    IF d.err # "none"
    THEN [err |-> d.err, eof |-> FALSE, step |-> "display"]
    ELSE LET r == ReadAll(s, d.pos) IN
         [err |-> r.err, eof |-> TRUE, step |-> "readall"]

\* for _, v := range upstreamImages { image.PullImage(ctx, cli, v) ...:
\* cli.ImagePull is called; it fails or hands out the response stream.
PullRequest ==
    /\ pc = "loop"
    /\ cmd = "pull"
    /\ \E v \in RangeNext(remaining), ok \in BOOLEAN :
        /\ remaining' = remaining \ {v}
        /\ cur' = v
        /\ reqs' = Append(reqs, Req("pull", v, <<v>>))
        /\ IF ok
           THEN /\ out' = [op |-> "pull", img |-> v, eof |-> FALSE]
                /\ open' = open \cup {<<"pull", v>>}
                /\ pc' = "pullstream"
                /\ UNCHANGED <<faults, errlog, stdout, exitCode>>
           ELSE /\ faults' = faults \cup {Fault("pull", v, "call")}
                /\ PullImageReturned(v, TRUE)
                /\ UNCHANGED <<out, open>>
    /\ UNCHANGED <<cmd, removed, e2eArgs, e2eRet, second, prevReqs, upstreamImages, privateImages,
                   images, resolveFailed>>

\* PullImage reads the response stream, closes it and returns.
PullStream ==
    /\ pc = "pullstream"
    /\ \E s \in StreamsOf(JSONItems) :
        LET c == ConsumeStream(s) IN
        /\ out' = [out EXCEPT !.eof = c.eof]
        /\ open' = CloseStream(<<"pull", cur>>)
        /\ faults' = IF c.err # "none"
                     THEN faults \cup {Fault("pull", cur, c.step)}
                     ELSE faults
        /\ PullImageReturned(cur, c.err # "none")
    /\ UNCHANGED <<cmd, removed, e2eArgs, e2eRet, second, prevReqs, upstreamImages, privateImages,
                   remaining, cur, images, reqs, resolveFailed>>

\* ------------------------------------------------------------------- push

\* pushImages loop body after image.TagImage, with the loop left at the
\* first tagging error.
TagImageReturnedAbort(v, failed) ==
    IF failed
    THEN Exit("tag", "error tagging image")
    ELSE /\ pc' = "push"
         /\ UNCHANGED <<errlog, exitCode>>

\* pushImages loop body after image.TagImage, with a continue after the
\* logged tagging error.
TagImageReturnedSkip(v, failed) ==
    /\ errlog' = IF failed
                 THEN Append(errlog, Logged("tag", v, "error tagging image"))
                 ELSE errlog
    /\ pc' = IF failed THEN "loop" ELSE "push"
    /\ UNCHANGED exitCode

\* pushImages loop body after image.TagImage returned: log the error and go
\* on to image.PushImage.
TagImageReturned(v, failed) ==
    /\ errlog' = IF failed
                 THEN Append(errlog, Logged("tag", v, "error tagging image"))
                 ELSE errlog
    /\ pc' = "push"
    /\ UNCHANGED exitCode

\* pushImages loop body after image.PushImage returned: log the error, print
\* the separator, go on with the next image.
PushImageReturned(v, msg) ==
    /\ errlog' = IF msg # ""
                 THEN Append(errlog, Logged("push", v, msg))
                 ELSE errlog
    /\ stdout' = Append(stdout, Line("sep", v, ""))
    /\ pc' = "loop"
    /\ UNCHANGED exitCode

\* for k, v := range upstreamImages { image.TagImage(ctx, cli, v,
\* privateImages[k]) ...: TagImage prints and calls cli.ImageTag.
TagRequest ==
    /\ pc = "loop"
    /\ cmd = "push"
    /\ \E v \in RangeNext(remaining), ok \in BOOLEAN :
        /\ remaining' = remaining \ {v}
        /\ cur' = v
        /\ stdout' = Append(stdout, Line("tagging", v, ""))
        /\ reqs' = Append(reqs, Req("tag", v, <<v>>))
        /\ faults' = IF ok THEN faults
                     ELSE faults \cup {Fault("tag", v, "call")}
        /\ TagImageReturned(v, ~ok)
    /\ UNCHANGED <<cmd, removed, e2eArgs, e2eRet, second, prevReqs, upstreamImages, privateImages,
                   images, out, open, resolveFailed>>

\* image.PushImage(ctx, cli, privateImages[k], auth): cli.ImagePush is
\* called; it fails or hands out the response stream.
PushRequest ==
    /\ pc = "push"
    /\ \E ok \in BOOLEAN :
        /\ reqs' = Append(reqs, Req("push", cur, <<cur>>))
        /\ IF ok
           THEN /\ out' = [op |-> "push", img |-> cur, eof |-> FALSE]
                /\ open' = open \cup {<<"push", cur>>}
                /\ pc' = "pushstream"
                /\ UNCHANGED <<faults, errlog, stdout, exitCode>>
           ELSE /\ faults' = faults \cup {Fault("push", cur, "call")}
                /\ PushImageReturned(cur, "error pushing image")
                /\ UNCHANGED <<out, open>>
    /\ UNCHANGED <<cmd, removed, e2eArgs, e2eRet, second, prevReqs, upstreamImages, privateImages,
                   remaining, cur, images, resolveFailed>>

\* PushImage reads the response stream, closes it and returns.
PushStream ==
    /\ pc = "pushstream"
    /\ \E s \in StreamsOf(JSONItems) :
        LET c == ConsumeStream(s) IN
        /\ out' = [out EXCEPT !.eof = c.eof]
        /\ open' = CloseStream(<<"push", cur>>)
        /\ faults' = IF c.err # "none"
                     THEN faults \cup {Fault("push", cur, c.step)}
                     ELSE faults
        /\ PushImageReturned(cur, IF c.err # "none"
                                  THEN "error uploading image" ELSE "")
    /\ UNCHANGED <<cmd, removed, e2eArgs, e2eRet, second, prevReqs, upstreamImages, privateImages,
                   remaining, cur, images, reqs, resolveFailed>>

\* ----------------------------------------------------------------- delete

\* types.ImageDeleteResponseItem: Deleted and Untagged, each possibly empty.
ResponseItems == [Deleted : {"", "sha"}, Untagged : {"", "ref"}]

Responses == UNION {[1..n -> ResponseItems] : n \in 0..MaxItems}

\* The printing loop of deleteImages with the Deleted line too printed only
\* when the value is not empty.
RECURSIVE PrintRespNonEmpty(_, _, _)
PrintRespNonEmpty(v, resp, i) ==
    IF i > Len(resp) THEN <<>>
    ELSE (IF resp[i].Deleted # ""
          THEN <<Line("Deleted", v, resp[i].Deleted)>> ELSE <<>>)
         \o (IF resp[i].Untagged # ""
             THEN <<Line("Untagged", v, resp[i].Untagged)>> ELSE <<>>)
         \o PrintRespNonEmpty(v, resp, i + 1)

\* for _, r := range resp { Printf("Deleted: ..."); if len(r.Untagged) > 0
\* { Printf("Untagged: ...") } }
RECURSIVE PrintResp(_, _, _)
PrintResp(v, resp, i) ==
    IF i > Len(resp) THEN <<>>
    ELSE <<Line("Deleted", v, resp[i].Deleted)>>
         \o (IF resp[i].Untagged # ""
             THEN <<Line("Untagged", v, resp[i].Untagged)>> ELSE <<>>)
         \o PrintResp(v, resp, i + 1)

\* for _, v := range upstreamImages { resp, err := image.DeleteImage(...):
\* cli.ImageRemove fails (resp is nil) or answers the response items.
DeleteRequest ==
    /\ pc = "loop"
    /\ cmd = "delete"
    /\ \E v \in RangeNext(remaining), ok \in BOOLEAN, resp \in Responses :
        /\ ~ok => resp = <<>>
        /\ remaining' = remaining \ {v}
        /\ cur' = v
        /\ reqs' = Append(reqs, Req("remove", v, <<v>>))
        /\ faults' = IF ok THEN faults
                     ELSE faults \cup {Fault("remove", v, "call")}
        /\ errlog' = IF ok THEN errlog
                     ELSE Append(errlog,
                                 Logged("remove", v, "error deleting image"))
        /\ removed' = IF ok THEN Append(removed, [img |-> v, resp |-> resp])
                      ELSE removed
        /\ stdout' = stdout \o PrintResp(v, resp, 1)
                            \o <<Line("sep", v, "")>>
    /\ UNCHANGED <<cmd, e2eArgs, e2eRet, pc, second, prevReqs, upstreamImages, privateImages,
                   images, out, open, exitCode, resolveFailed>>

\* --------------------------------------------------------------- download

\* for _, v := range upstreamImages { images = append(images, ...) }
AppendImage ==
    /\ pc = "loop"
    /\ cmd = "download"
    /\ \E v \in RangeNext(remaining) :
        /\ remaining' = remaining \ {v}
        /\ cur' = v
        /\ images' = Append(images, v)
    /\ UNCHANGED <<cmd, removed, e2eArgs, e2eRet, pc, second, prevReqs, upstreamImages, privateImages,
                   reqs, faults, errlog, stdout, out, open, exitCode,
                   resolveFailed>>

\* downloadImages after image.SaveToTar returned an error: log it, exit 1;
\* msg is the message SaveToTar wrapped the error with.
SaveToTarFailed(msg) ==
    /\ errlog' = Append(errlog, Logged("export", 0, msg))
    /\ exitCode' = 1
    /\ pc' = "done"

\* SaveToTar: file, err := os.Create(filepath)
SaveCreate ==
    /\ pc = "loop"
    /\ cmd = "download"
    /\ remaining = {}
    /\ \E ok \in BOOLEAN :
        IF ok
        THEN /\ pc' = "save"
             /\ UNCHANGED <<errlog, exitCode>>
        ELSE SaveToTarFailed("Could not create tarball file")
    /\ UNCHANGED <<cmd, removed, e2eArgs, e2eRet, second, prevReqs, upstreamImages, privateImages,
                   remaining, cur, images, reqs, faults, stdout, out, open,
                   resolveFailed>>

\* SaveToTar: out, err := cli.ImageSave(ctx, images)
SaveExport ==
    /\ pc = "save"
    /\ \E ok \in BOOLEAN :
        /\ reqs' = Append(reqs, Req("export", 0, images))
        /\ IF ok
           THEN /\ out' = [op |-> "export", img |-> 0, eof |-> FALSE]
                /\ open' = open \cup {<<"export", 0>>}
                /\ pc' = "copy"
                /\ UNCHANGED <<faults, errlog, exitCode>>
           ELSE /\ faults' = faults \cup {Fault("export", 0, "call")}
                /\ SaveToTarFailed("error saving images to tar")
                /\ UNCHANGED <<out, open>>
    /\ UNCHANGED <<cmd, removed, e2eArgs, e2eRet, second, prevReqs, upstreamImages, privateImages,
                   remaining, cur, images, stdout, resolveFailed>>

\* SaveToTar copying one chunk only and not waiting for the end of the data.
SaveToTarStreamOneChunk(s, w) ==
    LET it == ReadAt(s, 1) IN
    CASE it = "eof"   -> [cause |-> "none", eof |-> TRUE, msg |-> ""]
      [] it = "rderr" -> [cause |-> "read", eof |-> FALSE,
                          msg |-> "Could not copy the file data to the tarball"]
      [] OTHER        -> IF w = 1
                         THEN [cause |-> "write", eof |-> FALSE,
                               msg |-> "Could not copy the file data to the tarball"]
                         ELSE [cause |-> "none", eof |-> FALSE, msg |-> ""]

\* SaveToTar wrapping the error of ioutil.ReadAll with the message of the
\* copy error.
SaveToTarStreamOneMessage(s, w) ==
    LET c == Copy(s, 1, w, 0) IN
    IF c.err # "none"
    THEN [cause |-> c.err, eof |-> FALSE,
          msg |-> "Could not copy the file data to the tarball"]
    ELSE LET r == ReadAll(s, c.pos) IN
         IF r.err # "none"
         THEN [cause |-> "late", eof |-> TRUE,
               msg |-> "Could not copy the file data to the tarball"]
         ELSE [cause |-> "none", eof |-> TRUE, msg |-> ""]

\* SaveToTar from io.Copy on: copy the stream to the file, return on its
\* error; then read what is left of the stream, return on its error.
SaveToTarStream(s, w) ==
    LET c == Copy(s, 1, w, 0) IN
    IF c.err # "none"
    THEN [cause |-> c.err, eof |-> FALSE,
          msg |-> "Could not copy the file data to the tarball"]
    ELSE LET r == ReadAll(s, c.pos) IN
         IF r.err # "none"
         THEN [cause |-> "late", eof |-> TRUE,
               msg |-> "error exporting images"]
         ELSE [cause |-> "none", eof |-> TRUE, msg |-> ""]

\* SaveToTar reads the export stream and returns; downloadImages exits.
SaveCopy ==
    /\ pc = "copy"
    /\ \E s \in StreamsOf(TarItems), w \in 0..MaxStream :
        LET c == SaveToTarStream(s, w) IN
        /\ out' = [out EXCEPT !.eof = c.eof]
        /\ IF c.cause # "none"
           THEN /\ faults' = faults \cup {Fault("export", 0, c.cause)}
                /\ SaveToTarFailed(c.msg)
           ELSE /\ pc' = "done"
                /\ UNCHANGED <<faults, errlog, exitCode>>
    /\ UNCHANGED <<cmd, removed, e2eArgs, e2eRet, second, prevReqs, upstreamImages, privateImages,
                   remaining, cur, images, reqs, stdout, open, resolveFailed>>

\* The range loop is over and Run returns.
LoopEnd ==
    /\ pc = "loop"
    /\ cmd \in {"pull", "push", "delete"}
    /\ remaining = {}
    /\ pc' = "done"
    /\ UNCHANGED <<cmd, removed, e2eArgs, e2eRet, second, prevReqs, upstreamImages, privateImages,
                   remaining, cur, images, reqs, faults, errlog, stdout, out,
                   open, exitCode, resolveFailed>>

\* The sub-command is invoked once more, with the same flags.
Rerun ==
    /\ pc = "done"
    /\ ~second
    /\ second' = TRUE
    /\ prevReqs' = reqs
    /\ pc' = "start"
    /\ upstreamImages' = {}
    /\ privateImages' = {}
    /\ remaining' = {}
    /\ cur' = 0
    /\ images' = <<>>
    /\ reqs' = <<>>
    /\ faults' = {}
    /\ errlog' = <<>>
    /\ stdout' = <<>>
    /\ out' = NoStream
    /\ open' = {}
    /\ exitCode' = 0
    /\ resolveFailed' = FALSE
    /\ removed' = <<>>
    /\ UNCHANGED <<cmd, e2eArgs, e2eRet>>

Next ==
    \/ StatFile
    \/ ReadPassword
    \/ KubeSetup
    \/ GetUpstream
    \/ GetPrivate
    \/ NewClient
    \/ PullRequest
    \/ PullStream
    \/ TagRequest
    \/ PushRequest
    \/ PushStream
    \/ DeleteRequest
    \/ AppendImage
    \/ SaveCreate
    \/ SaveExport
    \/ SaveCopy
    \/ LoopEnd

NextRuns ==
    \/ Next
    \/ Rerun

Spec == Init /\ [][Next]_vars

SpecRuns == Init /\ [][NextRuns]_vars


\* ----------------------------------------------------------- GetE2EConfig

\* ops.Mode values.
Modes == {"Conformance", "Quick"}

\* mode.Get().E2EConfig: the preset of a mode.
ModeGet(mode) ==
    [Focus |-> mode \o "-focus", Skip |-> mode \o "-skip",
     Parallel |-> mode \o "-parallel", CustomRegistries |-> ""]

\* e2e-focus, e2e-skip, e2e-parallel
E2EFields == {"Focus", "Skip", "Parallel"}

\* A string flag of AddE2EConfigFlags: not given (its value is the default,
\* the preset of ops.Conformance) or given, possibly as "".
FlagStates(f) ==
    {[changed |-> FALSE, value |-> ModeGet("Conformance")[f]]}
    \cup {[changed |-> TRUE, value |-> x] : x \in {"", "x"}}

\* What --e2e-repo-config may name: no readable file, or a file whose
\* content is a flat mapping, empty, a mapping with a nested value, a
\* sequence, or no YAML at all.
FileKinds == {"unreadable", "flat", "empty", "nested", "sequence", "malformed"}

RegistryFlagStates ==
    {[changed |-> FALSE, value |-> ""]}
    \cup {[changed |-> TRUE, value |-> k] : k \in FileKinds}

\* The arguments of GetE2EConfig: the mode and the flag set.
E2EArgs ==
    [mode : Modes, Focus : FlagStates("Focus"), Skip : FlagStates("Skip"),
     Parallel : FlagStates("Parallel"), Registry : RegistryFlagStates]

\* ioutil.ReadFile(repoFile): the bytes of the file, or an error.
ReadFile(file) ==
    IF file = "unreadable"
    THEN [err |-> TRUE, contents |-> ""]
    ELSE [err |-> FALSE, contents |-> IF file = "empty" THEN "" ELSE file]

\* yaml.Unmarshal(contents, map[string]string{}): nil for a flat mapping and
\* for an empty document, an error for any other content.
YamlUnmarshalFails(contents) == contents \notin {"flat", ""}

\* A flag taken as given when its value is not the zero value.
FlagNotEmpty(flag) == flag.value # ""

\* flags.Changed(name)
FlagChanged(flag) == flag.changed

\* GetE2EConfig(mode, flags)
GetE2EConfig(a) ==
    LET cfg0 == ModeGet(a.mode)
        cfg1 == IF FlagChanged(a.Focus)
                THEN [cfg0 EXCEPT !.Focus = a.Focus.value] ELSE cfg0
        cfg2 == IF FlagChanged(a.Skip)
                THEN [cfg1 EXCEPT !.Skip = a.Skip.value] ELSE cfg1
        cfg3 == IF FlagChanged(a.Parallel)
                THEN [cfg2 EXCEPT !.Parallel = a.Parallel.value] ELSE cfg2
        file == ReadFile(a.Registry.value)
    IN IF ~FlagChanged(a.Registry)
       THEN [called |-> TRUE, cfg |-> cfg3, err |-> "none"]
       ELSE IF file.err
       THEN [called |-> TRUE, cfg |-> NilCfg,
             err |-> "couldn't read registry list"]
       ELSE IF YamlUnmarshalFails(file.contents)
       THEN [called |-> TRUE, cfg |-> NilCfg,
             err |-> "failed to parse yaml registry list:"]
       ELSE [called |-> TRUE,
             cfg |-> [cfg3 EXCEPT !.CustomRegistries = file.contents],
             err |-> "none"]

\* A command that takes the e2e flags is about to call GetE2EConfig.
InitE2E ==
    /\ cmd = "none"
    /\ pc = "start"
    /\ second = FALSE
    /\ prevReqs = <<>>
    /\ upstreamImages = {}
    /\ privateImages = {}
    /\ remaining = {}
    /\ cur = 0
    /\ images = <<>>
    /\ reqs = <<>>
    /\ faults = {}
    /\ errlog = <<>>
    /\ stdout = <<>>
    /\ out = NoStream
    /\ open = {}
    /\ exitCode = 0
    /\ resolveFailed = FALSE
    /\ removed = <<>>
    /\ e2eArgs \in E2EArgs
    /\ e2eRet = NoRet

\* The call of GetE2EConfig.
CallGetE2EConfig ==
    /\ e2eArgs.mode # "none"
    /\ ~e2eRet.called
    /\ e2eRet' = GetE2EConfig(e2eArgs)
    /\ UNCHANGED <<cmd, pc, second, prevReqs, upstreamImages, privateImages,
                   remaining, cur, images, reqs, faults, errlog, stdout, out,
                   open, exitCode, resolveFailed, removed, e2eArgs>>

NextE2E == CallGetE2EConfig

SpecE2E == InitE2E /\ [][NextE2E]_vars

\* ----------------------------------------------------------------- claims

\* Number of engine requests op issued for image v.
ReqCount(op, v) ==
    Cardinality({i \in DOMAIN reqs : reqs[i].op = op /\ reqs[i].img = v})

\* Images whose operation op the environment made fail.
FailedImgs(op) == {f.img : f \in {g \in faults : g.op = op}}

\* Errors logged for operation op, as positions of errlog.
LoggedAt(op) == {i \in DOMAIN errlog : errlog[i].op = op}

LoggedImgs(op) == {errlog[i].img : i \in LoggedAt(op)}

\* Images whose loop iteration ended (the separator was printed).
Separated == {stdout[i].img : i \in {j \in DOMAIN stdout : stdout[j].kind = "sep"}}

\* C1: when a pull batch has ended and the pull of exactly one image K failed
\* (engine call or stream), one pull request was issued for every image of
\* the set, exactly one error was logged, for K, and the other N-1 images
\* ended their iteration with no error.
C1_PullAllContinues ==
    (cmd = "pull" /\ pc = "done" /\ Cardinality(FailedImgs("pull")) = 1) =>
        /\ \A v \in Names : ReqCount("pull", v) = 1
        /\ Len(reqs) = NumImages
        /\ Cardinality(LoggedAt("pull")) = 1
        /\ LoggedImgs("pull") = FailedImgs("pull")
        /\ Cardinality(Separated \ LoggedImgs("pull")) = NumImages - 1

C1_Witness ==
    /\ cmd = "pull"
    /\ pc = "done"
    /\ Cardinality(FailedImgs("pull")) = 1
    /\ Len(reqs) = NumImages
    /\ reqs[1].img \in FailedImgs("pull")

\* C2 as stated: whenever a download run that obtained an export stream has
\* ended, the stream has been read to end-of-stream.
C2_AlwaysDrained ==
    (cmd = "download" /\ pc = "done" /\ out.op = "export") => out.eof

\* C2 amended: when a download run that obtained an export stream has ended,
\* the stream has been read to end-of-stream exactly when the copy to the
\* file did not fail (no write error, no read error during the copy).
C2_DrainedUnlessCopyFails ==
    (cmd = "download" /\ pc = "done" /\ out.op = "export") =>
        (out.eof <=>
            ~ \E f \in faults : f.op = "export" /\ f.cause \in {"write", "read"})

C2_Witness ==
    /\ cmd = "download"
    /\ pc = "done"
    /\ out.op = "export"
    /\ ~out.eof
    /\ \E f \in faults : f.op = "export" /\ f.cause = "write"

\* C3: when a push batch has ended and tagging failed for an image, a tag
\* request and a push request were issued for every other image of the set.
C3_TagFailureContinues ==
    (cmd = "push" /\ pc = "done") =>
        \A k \in FailedImgs("tag") : \A v \in Names \ {k} :
            ReqCount("tag", v) = 1 /\ ReqCount("push", v) = 1

C3_Witness ==
    /\ cmd = "push"
    /\ pc = "done"
    /\ Cardinality(FailedImgs("tag")) = 1
    /\ reqs # <<>>
    /\ reqs[1].img \in FailedImgs("tag")
    /\ Len(reqs) = 2 * NumImages

\* C4: when a pull, push or delete batch has ended and the operation of at
\* least one image failed, the exit status is not zero.
C4_NonZeroExitOnFailure ==
    (cmd \in {"pull", "push", "delete"} /\ pc = "done" /\ faults # {}) =>
        exitCode # 0

\* C5: when resolving the source or destination image set has failed, the
\* run has ended and no engine request (pull, tag, push, remove, export) has
\* been issued.
C5_ResolutionFailsFast ==
    resolveFailed => (pc = "done" /\ exitCode = 1 /\ reqs = <<>> /\ open = {})

C5_Witness ==
    /\ cmd = "push"
    /\ resolveFailed
    /\ upstreamImages = Names
    /\ pc = "done"

\* C7 as stated: no push request is issued for an image whose tagging
\* failed.
C7_NoPushAfterTagFailure ==
    \A k \in FailedImgs("tag") : ReqCount("push", k) = 0

\* C7 amended: a tagging failure does not abort the image's push: once the
\* iteration of an image whose tagging failed is over, exactly one push
\* request has been issued for it, right after its tag request; and when the
\* batch has ended a tag request has been issued for every image.
C7_PushAfterTagFailure ==
    cmd = "push" =>
        /\ \A k \in FailedImgs("tag") :
               (pc \in {"loop", "done"} \/ cur # k) =>
                   /\ ReqCount("push", k) = 1
                   /\ \E i \in DOMAIN reqs :
                          /\ i < Len(reqs)
                          /\ reqs[i] = Req("tag", k, <<k>>)
                          /\ reqs[i + 1] = Req("push", k, <<k>>)
        /\ (pc = "done" /\ reqs # <<>>) =>
               \A v \in Names : ReqCount("tag", v) = 1

C7_Witness ==
    /\ cmd = "push"
    /\ pc = "done"
    /\ FailedImgs("tag") = Names
    /\ \A k \in Names : ReqCount("push", k) = 1

\* The images of the requests of a run, with their operations, in order.
Count(rs, op, v) ==
    Cardinality({i \in DOMAIN rs : rs[i].op = op /\ rs[i].img = v})

Elems(list) == {list[i] : i \in DOMAIN list}

\* Both invocations got as far as issuing engine requests.
BothRan == second /\ pc = "done" /\ reqs # <<>> /\ prevReqs # <<>>

\* C8 as stated: two runs of the same batch over the same resolved image
\* set issue their engine requests for the images in the same order.
C8_SameOrder ==
    BothRan => reqs = prevReqs

\* C8 amended: two runs of the same batch over the same resolved image set
\* issue the same engine requests for the same images, each the same number
\* of times, in an order that may differ from run to run.
C8_SameRequestsAnyOrder ==
    BothRan =>
        /\ Len(reqs) = Len(prevReqs)
        /\ \A op \in {"pull", "tag", "push", "remove"} : \A v \in Names :
               Count(reqs, op, v) = Count(prevReqs, op, v)
        /\ \A i \in DOMAIN reqs : reqs[i].op = "export" =>
               /\ prevReqs[i].op = "export"
               /\ Len(reqs[i].list) = Len(prevReqs[i].list)
               /\ Elems(reqs[i].list) = Elems(prevReqs[i].list)

C8_Witness ==
    /\ BothRan
    /\ cmd = "pull"
    /\ Len(reqs) = NumImages
    /\ reqs[1].img # prevReqs[1].img

\* Messages SaveToTar wraps the errors of the export stream with.
CopyMsg == "Could not copy the file data to the tarball"
ExportMsg == "error exporting images"

LoggedMsgs(op) == {errlog[i].msg : i \in LoggedAt(op)}

\* C9 as stated: a read error of the export stream is never reported as a
\* copy/write error, and a write error of the file never as an export error.
C9_DistinctErrors ==
    cmd = "download" =>
        \A f \in faults :
            /\ f.cause \in {"read", "late"} => CopyMsg \notin LoggedMsgs("export")
            /\ f.cause = "write" => ExportMsg \notin LoggedMsgs("export")

\* C9 amended: a write error of the file is reported as a copy error, never
\* as an export error; a read error of the export stream arriving after the
\* copy ended is reported as an export error, never as a copy error; a read
\* error of the export stream arriving during the copy is reported as a copy
\* error, like a write error.
C9_ErrorsByPhase ==
    cmd = "download" =>
        \A f \in faults :
            /\ f.cause = "write" => LoggedMsgs("export") = {CopyMsg}
            /\ f.cause = "late" => LoggedMsgs("export") = {ExportMsg}
            /\ f.cause = "read" => LoggedMsgs("export") = {CopyMsg}

C9_Witness ==
    /\ cmd = "download"
    /\ pc = "done"
    /\ out.eof
    /\ \E f \in faults : f.cause = "late"
    /\ LoggedMsgs("export") = {ExportMsg}

\* An engine request is issued in this step.
Issues == Len(reqs') = Len(reqs) + 1

\* C10 as stated: at most one response stream is open at a time, and when an
\* engine request is issued after a pull or push stream was obtained, that
\* stream has been read to end-of-stream.
C10_DrainedBeforeNext ==
    /\ [](Cardinality(open) <= 1)
    /\ [][(Issues /\ out.op \in {"pull", "push"}) => out.eof]_vars

\* C10 amended: at most one response stream is open at a time; when an
\* engine request is issued after a pull or push stream was obtained, that
\* stream has been closed, and it has been read to end-of-stream if the
\* image's pull or push returned no error (when displaying the progress
\* messages or reading ends with an error the stream is closed unread).
C10_ClosedBeforeNext ==
    /\ [](Cardinality(open) <= 1)
    /\ [][(Issues /\ out.op \in {"pull", "push"}) =>
            /\ open = {}
            /\ out.img \notin LoggedImgs(out.op) => out.eof]_vars

C10_Witness ==
    /\ cmd = "pull"
    /\ pc = "pullstream"
    /\ Len(reqs) = 2
    /\ Fault("pull", reqs[1].img, "display") \in faults
    /\ open = {<<"pull", cur>>}

\* References handed to the engine call op for logical name img.
EngineRefs(op, img) ==
    CASE op = "pull"   -> {GetE2EImage("upstream", img)}
      [] op = "tag"    -> {GetE2EImage("upstream", img), GetE2EImage("private", img)}
      [] op = "push"   -> {GetE2EImage("private", img)}
      [] op = "remove" -> {GetE2EImage("upstream", img)}
      [] op = "export" -> {GetE2EImage("upstream", images[i]) : i \in DOMAIN images}
      [] OTHER         -> {}

\* Logged errors of a failed engine call of one image (the loops).
ImageErrors ==
    {i \in DOMAIN errlog :
        errlog[i].op \in {"pull", "tag", "push", "remove"} /\ errlog[i].img # 0}

\* Logged errors of a failed export (ImageSave failed, or its stream did).
ExportErrors ==
    {i \in DOMAIN errlog :
        /\ errlog[i].op = "export"
        /\ errlog[i].msg \in {"error saving images to tar", ExportMsg}}

\* C11 as stated: every logged engine-call error names the references the
\* failed call was about: a failed push the destination reference, a failed
\* export the exported references.
C11_ErrorsNameImages ==
    \A i \in ImageErrors \cup ExportErrors :
        /\ EngineRefs(errlog[i].op, errlog[i].img) # {}
        /\ EngineRefs(errlog[i].op, errlog[i].img) \subseteq errlog[i].refs

\* C11 amended: every logged pull, tag, push and delete error names the
\* references the failed call was about (a failed push the destination
\* reference that was pushed); a logged export error names no image
\* reference at all.
C11_ImageErrorsNameImages ==
    /\ \A i \in ImageErrors :
           /\ EngineRefs(errlog[i].op, errlog[i].img) # {}
           /\ EngineRefs(errlog[i].op, errlog[i].img) \subseteq errlog[i].refs
    /\ \A i \in ExportErrors : errlog[i].refs = {}

C11_Witness ==
    /\ cmd = "push"
    /\ pc = "done"
    /\ \E i \in ImageErrors :
           /\ errlog[i].op = "push"
           /\ GetE2EImage("private", errlog[i].img) \in errlog[i].refs
           /\ Fault("push", errlog[i].img, "call") \in faults

Printed(kind, v) ==
    LET Is(l) == l.kind = kind /\ l.img = v
        ls == SelectSeq(stdout, Is)
    IN [i \in DOMAIN ls |-> ls[i].val]

\* The Untagged values of a response that are present, in order.
UntaggedOf(resp) ==
    LET Has(r) == r.Untagged # ""
        rs == SelectSeq(resp, Has)
    IN [i \in DOMAIN rs |-> rs[i].Untagged]

\* C13: when a delete batch has ended, exactly one removal request was
\* issued for every image of the set, whatever removals failed; and for
\* every image removed successfully the Deleted value of each response item
\* was printed, and its Untagged value when it is present (and only then).
C13_DeleteAllReports ==
    (cmd = "delete" /\ pc = "done" /\ reqs # <<>>) =>
        /\ Len(reqs) = NumImages
        /\ \A v \in Names : ReqCount("remove", v) = 1
        /\ Len(removed) + Cardinality(FailedImgs("remove")) = NumImages
        /\ \A j \in DOMAIN removed :
               LET v == removed[j].img
                   resp == removed[j].resp
               IN /\ Printed("Deleted", v) = [i \in DOMAIN resp |-> resp[i].Deleted]
                  /\ Printed("Untagged", v) = UntaggedOf(resp)
        /\ \A v \in FailedImgs("remove") :
               Printed("Deleted", v) = <<>> /\ Printed("Untagged", v) = <<>>

C13_Witness ==
    /\ cmd = "delete"
    /\ pc = "done"
    /\ Len(reqs) = NumImages
    /\ reqs[1].img \in FailedImgs("remove")
    /\ \E j \in DOMAIN removed :
           /\ removed[j].resp # <<>>
           /\ removed[j].resp[1] = [Deleted |-> "", Untagged |-> "ref"]
           /\ Printed("Deleted", removed[j].img) = <<"">>
           /\ Printed("Untagged", removed[j].img) = <<"ref">>

\* C14: when GetE2EConfig was called with the registry-override flag set, it
\* returned an error and no configuration if the file could not be read or
\* did not parse as a flat mapping; otherwise it returned no error and a
\* configuration whose CustomRegistries is the content of the file and whose
\* Focus, Skip and Parallel are the flag's value where the flag was given
\* (also as "") and the preset of the mode where it was not.
C14_GetE2EConfig ==
    (e2eRet.called /\ e2eArgs.Registry.changed) =>
        LET file == e2eArgs.Registry.value IN
        IF file \in {"unreadable", "nested", "sequence", "malformed"}
        THEN e2eRet.err # "none" /\ e2eRet.cfg = NilCfg
        ELSE /\ e2eRet.err = "none"
             /\ e2eRet.cfg.CustomRegistries = (IF file = "empty" THEN "" ELSE file)
             /\ \A f \in E2EFields :
                    e2eRet.cfg[f] = IF e2eArgs[f].changed
                                    THEN e2eArgs[f].value
                                    ELSE ModeGet(e2eArgs.mode)[f]

C14_Witness ==
    /\ e2eRet.called
    /\ e2eArgs.mode = "Quick"
    /\ e2eArgs.Registry = [changed |-> TRUE, value |-> "flat"]
    /\ e2eArgs.Focus = [changed |-> TRUE, value |-> ""]
    /\ ~e2eArgs.Skip.changed
    /\ e2eRet.cfg.Focus = ""
    /\ e2eRet.cfg.Skip = "Quick-skip"
    /\ e2eRet.cfg.CustomRegistries = "flat"

====
